---- MODULE Spec2Model ----
(***************************************************************************)
(* Sleep Olympics API server (server/index.js): the bootstrap sequence of  *)
(* startServer and the Express request pipeline it composes.               *)
(*                                                                         *)
(* The bootstrap is a straight line of stages; each stage is one action.   *)
(* Once the listener is bound, every client may have one request in        *)
(* flight; a request walks the application's layer stack in the order the  *)
(* bootstrap registered the layers, one layer per action, exactly as the   *)
(* Express router's next() loop does.                                      *)
(***************************************************************************)
EXTENDS Integers, Sequences, FiniteSets, TLC

\* ------------------------------------------------------------------ bounds
MaxClock == 1

\* --------------------------------------------------------------- constants
DefaultStatus == 500
MinStatus == 100
MaxStatus == 999
NoCode == -1
NoTime == -1

\* process.env.NODE_ENV; "" is the variable left unset
Modes == {"production", "development", ""}

\* process.env.FIREBASE_SERVICE_ACCOUNT: unset, not JSON, JSON that cert()
\* refuses, or a usable service account
Blobs == {"absent", "malformed", "rejected", "valid"}

\* ./serviceAccountKey.json on disk
Bundles == {"absent", "rejected", "valid"}

\* what require('./utils/firestoreUtils')(firestore) can hand back: null or
\* an object exposing some set of operations
ExpectedOps == {"queryDocuments", "createDocument", "updateDocument"}
NullFacade == {"<null>"}
FacadeSurfaces == {NullFacade, {}, {"createDocument"}, {"queryDocuments"}, ExpectedOps}

RouteGroups == <<"auth", "users", "sleep", "competitions", "notifications", "invitations">>

NoOrigin == "<none>"
Origins == {NoOrigin, "http://localhost:5173", "https://pilves.github.io"}

AllClients == {"c1", "c2"}

VARIABLES
  mode,           \* process.env.NODE_ENV
  blob,           \* process.env.FIREBASE_SERVICE_ACCOUNT
  bundle,         \* the local credential file
  pc,             \* position of startServer
  serviceAccount, \* the credential source initializeFirebaseAdmin read, and
                  \* whether a service account came out of it
  firestore,      \* module-level store handle
  firestoreUtils, \* the facade's exposed surface
  stack,          \* the app's layer stack, in registration order
  listener,       \* "none", "pending", "bound", "failed"
  proc,           \* "running" or "exited"
  exitCode,       \* -1 while running
  log,            \* set of logger messages emitted
  trace,          \* the bootstrap stages completed, in order
  clients,        \* the clients that talk to this server
  req,            \* per client: the request in flight and its response
  now,            \* the wall clock in milliseconds
  healthTs,       \* timestamps of the last two health responses, oldest first
  workload,       \* the requests the clients send
  effects,        \* what the bootstrap has done so far: reads of the local
                  \* configuration file, store handles created, facades
                  \* built, and the facade each route group was given
  enveloped       \* whether the terminal handler has written an envelope

vars == <<mode, blob, bundle, pc, serviceAccount, firestore, firestoreUtils,
          stack, listener, proc, exitCode, log, trace, clients, req, now,
          healthTs, workload, effects, enveloped>>

bootVars == <<pc, serviceAccount, firestore, firestoreUtils, stack, listener,
              proc, exitCode, trace, effects>>
envVars == <<mode, blob, bundle, clients, workload>>

\* ----------------------------------------------------------------- values
NoErr == [set |-> FALSE, statusCode |-> NoCode, message |-> ""]

MkErr(code, msg) == [set |-> TRUE, statusCode |-> code, message |-> msg]

NoResp == [sent |-> FALSE, by |-> "", status |-> 0, kind |-> "", error |-> "",
           requestId |-> "", stack |-> FALSE, origin |-> "", ts |-> NoTime,
           environment |-> "", allowedOrigins |-> {}, bodyStatus |-> ""]

IdleReq == [state |-> "idle", method |-> "", path |-> <<>>, origin |-> NoOrigin,
            body |-> "", id |-> "", idx |-> 0, err |-> NoErr, seen |-> NoErr,
            acao |-> "", cors |-> {}, ran |-> <<>>, resp |-> NoResp]

Layer(name, kind, path, arity) ==
  [name |-> name, kind |-> kind, path |-> path, arity |-> arity]

\* ---------------------------------------------------------------- helpers
\* one logger call: the message and the detail object passed with it
LogEntry(msg, detail) == [msg |-> msg, detail |-> detail]

Exit(code) == /\ proc' = "exited"
              /\ exitCode' = code

Running == proc = "running"

\* --------------------------------------------------------------- requests
Methods == {"GET", "POST", "OPTIONS"}

Paths == {<<"api", "health">>, <<"api", "cors-test">>, <<"api", "users", "me">>,
          <<"nope">>}

\* the request body: none or well formed; JSON that does not parse; a form
\* in a charset the urlencoded parser does not support
Bodies == {"ok", "badJson", "badForm"}

\* a request as a client sends it: method, path, Origin header, body
AllRequests == Methods \X Paths \X Origins \X Bodies

\* ------------------------------------------------------------------- Init
Init ==
  /\ mode \in Modes
  /\ blob \in Blobs
  /\ bundle \in Bundles
  /\ pc = "load"
  /\ serviceAccount = [source |-> "none", loaded |-> FALSE]
  /\ firestore = "undefined"
  /\ firestoreUtils = {"<unbuilt>"}
  /\ stack = <<>>
  /\ listener = "none"
  /\ proc = "running"
  /\ exitCode = -1
  /\ log = {}
  /\ trace = <<>>
  /\ clients = {"c1"}
  /\ req = [c \in AllClients |-> IdleReq]
  /\ now = 0
  /\ healthTs = <<NoTime, NoTime>>
  /\ workload = AllRequests
  /\ effects = [dotenv |-> 0, handles |-> 0, facades |-> 0, injected |-> <<>>]
  /\ enveloped = FALSE

\* -------------------------------------------------------------- bootstrap
\* node evaluates index.js top to bottom: dotenv.config() reads the local
\* configuration file, the collaborators are required, startServer() is
\* called
ModuleLoad ==
  /\ Running /\ pc = "load"
  /\ pc' = "start"
  /\ effects' = [effects EXCEPT !.dotenv = @ + 1]
  /\ UNCHANGED <<serviceAccount, firestore, firestoreUtils, stack, listener,
                 proc, exitCode, log, trace>>
  /\ UNCHANGED <<envVars, req, now, healthTs, enveloped>>

\* a variant that reads the local configuration file outside production only
LoadEnv_DevOnly ==
  /\ Running /\ pc = "start"
  /\ pc' = "envLoaded"
  /\ log' = log \cup {LogEntry("Environment variables loaded.", {})}
  /\ trace' = Append(trace, "config")
  /\ effects' = [effects EXCEPT !.dotenv = IF mode = "production" THEN @ ELSE @ + 1]
  /\ UNCHANGED <<serviceAccount, firestore, firestoreUtils, stack, listener,
                 proc, exitCode>>
  /\ UNCHANGED <<envVars, req, now, healthTs, enveloped>>

\* 1. await loadEnv(); logger.info('Environment variables loaded.')
LoadEnv ==
  /\ Running /\ pc = "start"
  /\ pc' = "envLoaded"
  /\ log' = log \cup {LogEntry("Environment variables loaded.", {})}
  /\ trace' = Append(trace, "config")
  /\ UNCHANGED <<serviceAccount, firestore, firestoreUtils, stack, listener,
                 proc, exitCode>>
  /\ UNCHANGED <<envVars, req, now, healthTs, enveloped>>
  /\ effects' = [effects EXCEPT !.dotenv = @ + 1]

\* a variant that takes the blob whenever it is set, whatever the mode
UsesBlob_IgnoresMode == blob # "absent"

\* the branch of initializeFirebaseAdmin that resolves serviceAccount
UsesBlob == mode = "production" /\ blob # "absent"

CredentialSource == IF UsesBlob THEN "blob" ELSE "file"

\* the credential material the chosen branch reads
CredentialInput == IF UsesBlob THEN blob ELSE bundle

\* a variant whose catch block logs the error and returns
InitializeFirebaseAdmin_Swallow ==
  /\ Running /\ pc = "envLoaded"
  /\ serviceAccount' = [source |-> CredentialSource,
                        loaded |-> CredentialInput \in {"valid", "rejected"}]
  /\ IF CredentialInput = "valid"
       THEN /\ firestore' = "handle"
            /\ log' = log \cup {LogEntry("Firebase Admin initialized successfully", {})}
       ELSE /\ log' = log \cup {LogEntry("Error initializing Firebase Admin:", {CredentialInput})}
            /\ UNCHANGED firestore
  /\ pc' = "firebaseReady"
  /\ trace' = Append(trace, "store")
  /\ UNCHANGED <<proc, exitCode, firestoreUtils, stack, listener>>
  /\ UNCHANGED <<envVars, req, now, healthTs, enveloped>>
  /\ effects' = [effects EXCEPT !.handles = IF CredentialInput = "valid" THEN @ + 1 ELSE @]

\* 2. await initializeFirebaseAdmin(): JSON.parse / require, cert(),
\* initializeApp(), admin.firestore(); any throw is caught, logged, exit(1)
InitializeFirebaseAdmin ==
  /\ Running /\ pc = "envLoaded"
  /\ IF CredentialInput = "valid"
       THEN /\ serviceAccount' = [source |-> CredentialSource, loaded |-> TRUE]
            /\ firestore' = "handle"
            /\ log' = log \cup {LogEntry("Firebase Admin initialized successfully", {})}
            /\ pc' = "firebaseReady"
            /\ trace' = Append(trace, "store")
            /\ UNCHANGED <<proc, exitCode>>
       ELSE \* JSON.parse and require throw before the assignment; cert()
            \* throws after it
            /\ serviceAccount' = [source |-> CredentialSource,
                                  loaded |-> CredentialInput = "rejected"]
            /\ log' = log \cup {LogEntry("Error initializing Firebase Admin:", {CredentialInput})}
            /\ Exit(1)
            /\ UNCHANGED <<firestore, pc, trace>>
  /\ UNCHANGED <<firestoreUtils, stack, listener>>
  /\ UNCHANGED <<envVars, req, now, healthTs, enveloped>>
  /\ effects' = [effects EXCEPT !.handles = IF CredentialInput = "valid" THEN @ + 1 ELSE @]

\* a variant that asks for a non-empty surface, whatever it holds
FacadeCheckFails_NonEmpty(surface) == surface = NullFacade \/ surface = {}

\* a variant that only refuses a null facade
FacadeCheckFails_NullOnly(surface) == surface = NullFacade

\* the structural check of startServer:
\* !firestoreUtils || typeof firestoreUtils.queryDocuments !== 'function'
FacadeCheckFails(surface) ==
  surface = NullFacade \/ "queryDocuments" \notin surface

\* Object.keys(firestoreUtils || {})
SurfaceKeys(surface) == IF surface = NullFacade THEN {} ELSE surface

\* the facade is built from the store handle, then checked
BuildFacade ==
  /\ Running /\ pc = "firebaseReady"
  /\ \E surface \in FacadeSurfaces :
       /\ firestoreUtils' = surface
       /\ IF FacadeCheckFails(surface)
            THEN /\ log' = log \cup {LogEntry("firestoreUtils was not initialized correctly!",
                                                SurfaceKeys(surface))}
                 /\ Exit(1)
                 /\ UNCHANGED <<pc, trace>>
            ELSE /\ log' = log \cup {LogEntry("firestoreUtils initialized successfully with methods:",
                                                SurfaceKeys(surface))}
                 /\ pc' = "facadeChecked"
                 /\ trace' = Append(trace, "facade")
                 /\ UNCHANGED <<proc, exitCode>>
  /\ UNCHANGED <<serviceAccount, firestore, stack, listener>>
  /\ UNCHANGED <<envVars, req, now, healthTs, enveloped>>
  /\ effects' = [effects EXCEPT !.facades = @ + 1]

\* a variant that registers the reflective CORS responder ahead of the
\* security layer
MiddlewareLayers_CorsFirst ==
  << Layer("corsResponder", "use", <<>>, 3),
     Layer("security", "use", <<>>, 3),
     Layer("logging", "use", <<>>, 3),
     Layer("json", "use", <<>>, 3),
     Layer("urlencoded", "use", <<>>, 3) >>

\* 3-4. const app = express(); then the five app.use calls of stage 4, in
\* source order: security, logging, json, urlencoded, reflective CORS
MiddlewareLayers ==
  << Layer("security", "use", <<>>, 3),
     Layer("logging", "use", <<>>, 3),
     Layer("json", "use", <<>>, 3),
     Layer("urlencoded", "use", <<>>, 3),
     Layer("corsResponder", "use", <<>>, 3) >>

ComposeMiddleware ==
  /\ Running /\ pc = "facadeChecked"
  /\ stack' = stack \o MiddlewareLayers
  /\ pc' = "middleware"
  /\ trace' = Append(trace, "middleware")
  /\ UNCHANGED <<serviceAccount, firestore, firestoreUtils, listener, proc,
                 exitCode, log>>
  /\ UNCHANGED <<envVars, req, now, healthTs, enveloped>>
  /\ UNCHANGED effects

\* app.get('/api/cors-test', ...)
RegisterCorsTest ==
  /\ Running /\ pc = "middleware"
  /\ stack' = Append(stack, Layer("corsTest", "get", <<"api", "cors-test">>, 3))
  /\ pc' = "corsTest"
  /\ UNCHANGED <<serviceAccount, firestore, firestoreUtils, listener, proc,
                 exitCode, log, trace>>
  /\ UNCHANGED <<envVars, req, now, healthTs, enveloped>>
  /\ UNCHANGED effects

\* the facade object startServer holds: which build it came from and the
\* surface it exposes
TheFacade == [instance |-> effects.facades, surface |-> firestoreUtils]

\* a variant in which every route group builds a facade of its own from
\* the store handle
MountRoutes_OwnFacade ==
  /\ Running /\ pc = "corsTest"
  /\ stack' = stack \o [i \in 1..Len(RouteGroups) |->
                          Layer(RouteGroups[i], "use", <<"api", RouteGroups[i]>>, 3)]
  /\ pc' = "mounted"
  /\ trace' = Append(trace, "routes")
  /\ effects' = [effects EXCEPT
                   !.facades = @ + Len(RouteGroups),
                   !.injected = [i \in 1..Len(RouteGroups) |->
                                   [instance |-> effects.facades + i,
                                    surface |-> firestoreUtils]]]
  /\ UNCHANGED <<serviceAccount, firestore, firestoreUtils, listener, proc,
                 exitCode, log>>
  /\ UNCHANGED <<envVars, req, now, healthTs, enveloped>>

\* app.use('/api/<group>', <group>Routes(firestoreUtils)) for the six groups
RouteLayers ==
  [i \in 1..Len(RouteGroups) |->
     Layer(RouteGroups[i], "use", <<"api", RouteGroups[i]>>, 3)]

\* 5. the six route groups are mounted, each given the facade
MountRoutes ==
  /\ Running /\ pc = "corsTest"
  /\ stack' = stack \o RouteLayers
  /\ pc' = "mounted"
  /\ trace' = Append(trace, "routes")
  /\ UNCHANGED <<serviceAccount, firestore, firestoreUtils, listener, proc,
                 exitCode, log>>
  /\ UNCHANGED <<envVars, req, now, healthTs, enveloped>>
  /\ effects' = [effects EXCEPT !.injected = [i \in 1..Len(RouteGroups) |-> TheFacade]]

\* 6-7. app.get('/api/health', ...) and the four-argument error handler
RegisterTail ==
  /\ Running /\ pc = "mounted"
  /\ stack' = stack \o << Layer("health", "get", <<"api", "health">>, 3),
                          Layer("errorHandler", "use", <<>>, 4) >>
  /\ pc' = "tail"
  /\ UNCHANGED <<serviceAccount, firestore, firestoreUtils, listener, proc,
                 exitCode, log, trace>>
  /\ UNCHANGED <<envVars, req, now, healthTs, enveloped>>
  /\ UNCHANGED effects

\* a variant that calls app.listen before the route groups are mounted
Listen_BeforeMount ==
  /\ Running /\ pc = "corsTest"
  /\ listener' = "pending"
  /\ pc' = "returned"
  /\ UNCHANGED <<serviceAccount, firestore, firestoreUtils, stack, proc,
                 exitCode, log, trace>>
  /\ UNCHANGED <<envVars, req, now, healthTs, enveloped>>
  /\ UNCHANGED effects

\* 9. app.listen(PORT, callback): the bind is requested and startServer
\* returns; the outcome arrives on a later turn of the event loop
Listen ==
  /\ Running /\ pc = "tail"
  /\ listener' = "pending"
  /\ pc' = "returned"
  /\ UNCHANGED <<serviceAccount, firestore, firestoreUtils, stack, proc,
                 exitCode, log, trace>>
  /\ UNCHANGED <<envVars, req, now, healthTs, enveloped>>
  /\ UNCHANGED effects

\* process.env.NODE_ENV || 'development'
EnvironmentName(m) == IF m = "" THEN "development" ELSE m

\* the callback given to app.listen.  express 5 registers it both for the
\* 'listening' event and, once, for the server's 'error' event; it ignores
\* its argument and logs the same line in both cases
ListenCallback ==
  /\ Running /\ listener = "pending"
  /\ \E bound \in BOOLEAN :
       /\ listener' = (IF bound THEN "bound" ELSE "failed")
       /\ trace' = (IF bound THEN Append(trace, "listen") ELSE trace)
  /\ log' = log \cup {LogEntry("Server running on port", {EnvironmentName(mode)})}
  /\ UNCHANGED <<pc, serviceAccount, firestore, firestoreUtils, stack, proc,
                 exitCode>>
  /\ UNCHANGED <<envVars, req, now, healthTs, enveloped>>
  /\ UNCHANGED effects

\* with the bind refused and the 'error' event handled, nothing fails the
\* process: it ends normally once the event loop has nothing left to wait
\* for, and lives on for as long as some other handle keeps the loop busy
EventLoopDrains ==
  /\ Running /\ listener = "failed"
  /\ Exit(0)
  /\ UNCHANGED <<pc, serviceAccount, firestore, firestoreUtils, stack,
                 listener, log, trace>>
  /\ UNCHANGED <<envVars, req, now, healthTs, enveloped>>
  /\ UNCHANGED effects

Bootstrap ==
  \/ ModuleLoad
  \/ LoadEnv
  \/ InitializeFirebaseAdmin
  \/ BuildFacade
  \/ ComposeMiddleware
  \/ RegisterCorsTest
  \/ MountRoutes
  \/ RegisterTail
  \/ Listen
  \/ ListenCallback
  \/ EventLoopDrains

\* ------------------------------------------------------- request pipeline
\* the identifier the request context carries
RequestId(c) == IF c = "c1" THEN "req-1" ELSE "req-2"

\* the resolved allow-list: ALLOWED_ORIGINS / DEV_ALLOWED_ORIGINS are left
\* unset, so the defaults written in the health handler apply
AllowedOrigins(m) ==
  IF m = "production"
    THEN {"https://pilves.github.io", "https://api.chaidla.ee"}
    ELSE {"http://localhost:5173", "http://localhost:5000"}

IsPrefix(p, q) == Len(p) <= Len(q) /\ SubSeq(q, 1, Len(p)) = p

\* whether the router runs this layer for the request: app.use layers match
\* by path prefix and run only with the arity that fits (four arguments
\* with a pending error, three without); app.get routes match GET on the
\* exact path and never with a pending error
Matches(layer, r, hasErr) ==
  IF layer.kind = "use"
    THEN IsPrefix(layer.path, r.path) /\ (hasErr <=> layer.arity = 4)
    ELSE ~hasErr /\ r.method = "GET" /\ r.path = layer.path

\* the router's next(): the first layer at or after `from` that runs;
\* Len(stack) + 1 when none is left and the final handler takes over
NextIdx(from, r, hasErr) ==
  LET cands == {i \in from..Len(stack) : Matches(stack[i], r, hasErr)}
  IN IF cands = {} THEN Len(stack) + 1
     ELSE CHOOSE i \in cands : \A j \in cands : i <= j

\* next() / next(err) called by the layer at r.idx
Advance(r) == [r EXCEPT !.idx = NextIdx(r.idx + 1, r, r.err.set)]

Raise(r, e) == Advance([r EXCEPT !.err = e])

\* the response is written and the request is over
Send(r, resp) == [r EXCEPT !.state = "done", !.resp = resp]

\* the layer at r.idx is entered: ran keeps the layers a request went through
Run(r) == [r EXCEPT !.ran = Append(@, stack[r.idx].name)]

At(c, name) ==
  /\ Running
  /\ req[c].state = "active"
  /\ req[c].idx <= Len(stack)
  /\ stack[req[c].idx].name = name

\* a connection hands the server a request; only a bound listener accepts
Accept(c) ==
  /\ Running /\ listener = "bound"
  /\ c \in clients /\ req[c].state = "idle"
  /\ \E m \in Methods, p \in Paths, o \in Origins, b \in Bodies :
       /\ <<m, p, o, b>> \in workload
       /\ LET r == [IdleReq EXCEPT !.state = "active", !.method = m, !.path = p,
                                   !.origin = o, !.body = b, !.id = RequestId(c)]
          IN req' = [req EXCEPT ![c] = [r EXCEPT !.idx = NextIdx(1, r, FALSE)]]
  /\ UNCHANGED <<bootVars, envVars, log, now, healthTs, enveloped>>

\* the client has read the response; the request context is gone
Release(c) ==
  /\ req[c].state = "done"
  /\ req' = [req EXCEPT ![c] = IdleReq]
  /\ UNCHANGED <<bootVars, envVars, log, now, healthTs, enveloped>>

\* stage 1, configureSecurityMiddleware: a request from an origin outside
\* the allow-list is rejected with an error
SecurityStage(c) ==
  /\ At(c, "security")
  /\ LET r == Run(req[c])
     IN req' = [req EXCEPT ![c] =
                  IF r.origin # NoOrigin /\ r.origin \notin AllowedOrigins(mode)
                    THEN Raise(r, MkErr(NoCode, "Not allowed by CORS"))
                    ELSE Advance(r)]
  /\ UNCHANGED <<bootVars, envVars, log, now, healthTs, enveloped>>

\* stage 2, configureLogging
LoggingStage(c) ==
  /\ At(c, "logging")
  /\ req' = [req EXCEPT ![c] = Advance(Run(req[c]))]
  /\ UNCHANGED <<bootVars, envVars, log, now, healthTs, enveloped>>

\* stage 3a, express.json(): a body that does not parse is a 400 error
JsonParser(c) ==
  /\ At(c, "json")
  /\ LET r == Run(req[c])
     IN req' = [req EXCEPT ![c] =
                  IF r.body = "badJson"
                    THEN Raise(r, MkErr(400, "Unexpected token"))
                    ELSE Advance(r)]
  /\ UNCHANGED <<bootVars, envVars, log, now, healthTs, enveloped>>

\* stage 3b, express.urlencoded(): an unsupported charset is a 415 error
UrlencodedParser(c) ==
  /\ At(c, "urlencoded")
  /\ LET r == Run(req[c])
     IN req' = [req EXCEPT ![c] =
                  IF r.body = "badForm"
                    THEN Raise(r, MkErr(415, "unsupported charset"))
                    ELSE Advance(r)]
  /\ UNCHANGED <<bootVars, envVars, log, now, healthTs, enveloped>>

\* a variant that always answers with the wildcard
ReflectedOrigin_Star(origin) == "*"

\* req.headers.origin || '*'
ReflectedOrigin(origin) == IF origin = NoOrigin THEN "*" ELSE origin

\* the four fixed headers the responder sets beside Access-Control-Allow-Origin
CorsHeaders ==
  { <<"Access-Control-Allow-Methods", "GET, POST, PUT, DELETE, OPTIONS">>,
    <<"Access-Control-Allow-Headers",
      "Content-Type, Authorization, DNT, User-Agent, X-Requested-With, If-Modified-Since, Cache-Control, Range">>,
    <<"Access-Control-Allow-Credentials", "true">>,
    <<"Access-Control-Expose-Headers", "Content-Length, Content-Range">> }

\* a variant that keeps the origin to reflect in a variable of the module,
\* shared by all requests: another request in flight may have set it last
CorsResponder_Shared(c) ==
  /\ At(c, "corsResponder")
  /\ \E d \in AllClients :
       /\ d = c \/ req[d].state = "active"
       /\ LET r == [Run(req[c]) EXCEPT !.acao = ReflectedOrigin(req[d].origin),
                                       !.cors = CorsHeaders]
          IN IF r.method = "OPTIONS"
               THEN /\ log' = log \cup {LogEntry("Handling OPTIONS request from", {})}
                    /\ req' = [req EXCEPT ![c] =
                                 Send(r, [NoResp EXCEPT !.sent = TRUE, !.by = "corsResponder",
                                                        !.status = 200, !.kind = "empty"])]
               ELSE /\ req' = [req EXCEPT ![c] = Advance(r)]
                    /\ UNCHANGED log
  /\ UNCHANGED <<bootVars, envVars, now, healthTs, enveloped>>

\* stage 4, the reflective CORS responder: sets the five headers, answers
\* OPTIONS with 200 and no body (logging the fact; the origin named in the
\* log line is not kept), otherwise calls next()
CorsResponder(c) ==
  /\ At(c, "corsResponder")
  /\ LET r == [Run(req[c]) EXCEPT !.acao = ReflectedOrigin(req[c].origin),
                                  !.cors = CorsHeaders]
     IN IF r.method = "OPTIONS"
          THEN /\ log' = log \cup {LogEntry("Handling OPTIONS request from", {})}
               /\ req' = [req EXCEPT ![c] =
                            Send(r, [NoResp EXCEPT !.sent = TRUE, !.by = "corsResponder",
                                                   !.status = 200, !.kind = "empty"])]
          ELSE /\ req' = [req EXCEPT ![c] = Advance(r)]
               /\ UNCHANGED log
  /\ UNCHANGED <<bootVars, envVars, now, healthTs, enveloped>>

\* a variant that falls back to the wildcard of the CORS responder
EchoedOrigin_Star(origin) == IF origin = NoOrigin THEN "*" ELSE origin

\* req.headers.origin || 'No origin header'
EchoedOrigin(origin) == IF origin = NoOrigin THEN "No origin header" ELSE origin

\* GET /api/cors-test
CorsTestHandler(c) ==
  /\ At(c, "corsTest")
  /\ req' = [req EXCEPT ![c] =
               Send(Run(req[c]), [NoResp EXCEPT !.sent = TRUE, !.by = "corsTest",
                                           !.status = 200, !.kind = "json",
                                           !.bodyStatus = "ok",
                                           !.origin = EchoedOrigin(req[c].origin),
                                           !.ts = now])]
  /\ UNCHANGED <<bootVars, envVars, log, now, healthTs, enveloped>>

\* what a route collaborator may throw: a plain error, one without a
\* message, and errors carrying a statusCode field
RouteErrors == { MkErr(NoCode, "boom"), MkErr(NoCode, ""), MkErr(404, "not found"),
                 MkErr(0, "zero"), MkErr(42, "odd") }

\* stage 5, a mounted route group: it answers, throws, or has no route for
\* the request and calls next()
RouteGroup(c) ==
  /\ Running /\ req[c].state = "active" /\ req[c].idx <= Len(stack)
  /\ \E i \in 1..Len(RouteGroups) : stack[req[c].idx].name = RouteGroups[i]
  /\ LET r == Run(req[c])
     IN \/ req' = [req EXCEPT ![c] =
                     Send(r, [NoResp EXCEPT !.sent = TRUE, !.by = stack[r.idx].name,
                                            !.status = 200, !.kind = "json"])]
        \/ \E e \in RouteErrors : req' = [req EXCEPT ![c] = Raise(r, e)]
        \/ req' = [req EXCEPT ![c] = Advance(r)]
  /\ UNCHANGED <<bootVars, envVars, log, now, healthTs, enveloped>>

\* a variant that stamps every response with the time the process started
HealthHandler_Stale(c) ==
  /\ At(c, "health")
  /\ req' = [req EXCEPT ![c] =
               Send(Run(req[c]), [NoResp EXCEPT !.sent = TRUE, !.by = "health",
                                           !.status = 200, !.kind = "json",
                                           !.bodyStatus = "ok",
                                           !.environment = EnvironmentName(mode),
                                           !.ts = 0,
                                           !.origin = EchoedOrigin(req[c].origin),
                                           !.allowedOrigins = AllowedOrigins(mode)])]
  /\ healthTs' = <<healthTs[2], 0>>
  /\ UNCHANGED <<bootVars, envVars, log, now, enveloped>>

\* GET /api/health
HealthHandler(c) ==
  /\ At(c, "health")
  /\ req' = [req EXCEPT ![c] =
               Send(Run(req[c]), [NoResp EXCEPT !.sent = TRUE, !.by = "health",
                                           !.status = 200, !.kind = "json",
                                           !.bodyStatus = "ok",
                                           !.environment = EnvironmentName(mode),
                                           !.ts = now,
                                           !.origin = EchoedOrigin(req[c].origin),
                                           !.allowedOrigins = AllowedOrigins(mode)])]
  /\ healthTs' = <<healthTs[2], now>>
  /\ UNCHANGED <<bootVars, envVars, log, now, enveloped>>

\* a variant that ignores the attached field
ErrorStatus_Always500(e) == DefaultStatus

\* err.statusCode || 500
ErrorStatus(e) ==
  IF e.statusCode = NoCode \/ e.statusCode = 0 THEN DefaultStatus ELSE e.statusCode

\* err.message || 'Internal server error'
ErrorMessage(e) == IF e.message = "" THEN "Internal server error" ELSE e.message

\* a variant that attaches the stack in every mode
ExposesStack_Always(m) == TRUE

\* errorResponse.stack is set when NODE_ENV !== 'production'
ExposesStack(m) == m # "production"

\* express 5 res.status(code) throws unless code is an integer in 100..999
ValidStatus(code) == code >= MinStatus /\ code <= MaxStatus

\* a variant that treats every error as fatal: it answers, then ends the
\* process
ErrorHandler_Crash(c) ==
  /\ At(c, "errorHandler")
  /\ LET r == [Run(req[c]) EXCEPT !.seen = req[c].err]
     IN /\ req' = [req EXCEPT ![c] =
                     Send(r, [NoResp EXCEPT !.sent = TRUE, !.by = "errorHandler",
                                            !.status = DefaultStatus, !.kind = "json",
                                            !.error = ErrorMessage(r.err),
                                            !.requestId = r.id,
                                            !.stack = ExposesStack(mode)])]
        /\ enveloped' = TRUE
  /\ Exit(1)
  /\ UNCHANGED <<pc, serviceAccount, firestore, firestoreUtils, stack, listener,
                 trace, effects>>
  /\ UNCHANGED <<envVars, log, now, healthTs>>

\* a variant that starts the error response from a clean set of headers
ErrorHandler_ClearsHeaders(c) ==
  /\ At(c, "errorHandler")
  /\ LET r == [Run(req[c]) EXCEPT !.seen = req[c].err, !.acao = "", !.cors = {}]
         statusCode == ErrorStatus(r.err)
     IN /\ req' = [req EXCEPT ![c] =
                     IF ValidStatus(statusCode)
                       THEN Send(r, [NoResp EXCEPT !.sent = TRUE, !.by = "errorHandler",
                                                   !.status = statusCode, !.kind = "json",
                                                   !.error = ErrorMessage(r.err),
                                                   !.requestId = r.id,
                                                   !.stack = ExposesStack(mode)])
                       ELSE Raise(r, MkErr(NoCode, "Invalid status code"))]
        /\ enveloped' = (enveloped \/ ValidStatus(statusCode))
  /\ UNCHANGED <<bootVars, envVars, log, now, healthTs>>

\* stage 7, the global error handler: res.status(statusCode).json(envelope);
\* when res.status throws, the router passes the new error on.  seen keeps
\* the error the handler was given
ErrorHandler(c) ==
  /\ At(c, "errorHandler")
  /\ LET r == [Run(req[c]) EXCEPT !.seen = req[c].err]
         statusCode == ErrorStatus(r.err)
     IN /\ req' = [req EXCEPT ![c] =
                     IF ValidStatus(statusCode)
                       THEN Send(r, [NoResp EXCEPT !.sent = TRUE, !.by = "errorHandler",
                                                   !.status = statusCode, !.kind = "json",
                                                   !.error = ErrorMessage(r.err),
                                                   !.requestId = r.id,
                                                   !.stack = ExposesStack(mode)])
                       ELSE Raise(r, MkErr(NoCode, "Invalid status code"))]
        /\ enveloped' = (enveloped \/ ValidStatus(statusCode))
  /\ UNCHANGED <<bootVars, envVars, log, now, healthTs>>

\* the status express's final handler gives an error: its statusCode when
\* that is in 400..599, else 500
FinalStatus(e) ==
  IF e.statusCode >= 400 /\ e.statusCode <= 599 THEN e.statusCode ELSE DefaultStatus

\* no layer is left: express's final handler answers with an HTML page, 404
\* when nothing matched, the error's status (and, outside production, its
\* stack) when an error was never answered
FinalHandler(c) ==
  /\ Running /\ req[c].state = "active" /\ req[c].idx > Len(stack)
  /\ LET r == [req[c] EXCEPT !.ran = Append(@, "finalhandler")]
     IN req' = [req EXCEPT ![c] =
                  Send(r, [NoResp EXCEPT !.sent = TRUE, !.by = "finalhandler",
                                         !.kind = "html",
                                         !.status = (IF r.err.set THEN FinalStatus(r.err)
                                                     ELSE 404),
                                         !.stack = (r.err.set /\ mode # "production")])]
  /\ UNCHANGED <<bootVars, envVars, log, now, healthTs, enveloped>>

\* a millisecond passes on the wall clock read by new Date()
Tick ==
  /\ now < MaxClock
  /\ now' = now + 1
  /\ UNCHANGED <<bootVars, envVars, log, req, healthTs, enveloped>>

Pipeline(c) ==
  \/ Accept(c)
  \/ SecurityStage(c)
  \/ LoggingStage(c)
  \/ JsonParser(c)
  \/ UrlencodedParser(c)
  \/ CorsResponder(c)
  \/ CorsTestHandler(c)
  \/ RouteGroup(c)
  \/ HealthHandler(c)
  \/ ErrorHandler(c)
  \/ FinalHandler(c)
  \/ Release(c)

Next == Bootstrap \/ Tick \/ \E c \in AllClients : Pipeline(c)

Spec == Init /\ [][Next]_vars

\* two clients talk to a server that boots from a usable credential; the
\* requests they send are GETs with a well-formed body, to the two endpoints
\* and to a route group, from any of the origins
ConcRequests == {"GET"} \X {<<"api", "health">>, <<"api", "cors-test">>,
                            <<"api", "users", "me">>} \X Origins \X {"ok"}

InitConc ==
  /\ mode \in {"production", "development"}
  /\ blob = "valid"
  /\ bundle = "valid"
  /\ pc = "load"
  /\ serviceAccount = [source |-> "none", loaded |-> FALSE]
  /\ firestore = "undefined"
  /\ firestoreUtils = {"<unbuilt>"}
  /\ stack = <<>>
  /\ listener = "none"
  /\ proc = "running"
  /\ exitCode = -1
  /\ log = {}
  /\ trace = <<>>
  /\ clients = AllClients
  /\ req = [c \in AllClients |-> IdleReq]
  /\ now = 0
  /\ healthTs = <<NoTime, NoTime>>
  /\ workload = ConcRequests
  /\ effects = [dotenv |-> 0, handles |-> 0, facades |-> 0, injected |-> <<>>]
  /\ enveloped = FALSE

SpecConc == InitConc /\ [][Next]_vars

\* ------------------------------------------------------------ properties
Done(c) == req[c].state = "done"

Unbuilt == {"<unbuilt>"}

Logged(msg) == \E e \in log : e.msg = msg

LayerNames == {stack[i].name : i \in 1..Len(stack)}

GroupNames == {RouteGroups[i] : i \in 1..Len(RouteGroups)}

StageOrder == <<"config", "store", "facade", "middleware", "routes", "listen">>

\* the allow-list of the security layer admits the request's origin
Admitted(c) == req[c].origin = NoOrigin \/ req[c].origin \in AllowedOrigins(mode)

\* C1: every OPTIONS request, on any path and whatever its body, is answered
\* by the reflective responder with status 200, an empty body and the CORS
\* headers, and is never handed to a route, health or cors-test handler.
\* (Stated for the requests whose origin the allow-list admits: the claim
\* covers the others too.)
C1_PreflightAlwaysSucceeds ==
  \A c \in AllClients :
    (Done(c) /\ req[c].method = "OPTIONS" /\ Admitted(c)) =>
      /\ req[c].resp.by = "corsResponder"
      /\ req[c].resp.status = 200
      /\ req[c].resp.kind = "empty"
      /\ req[c].acao = ReflectedOrigin(req[c].origin)

\* C2: the bootstrap stages complete in the order configuration, store,
\* facade, middleware, routes, listener; route groups are in the stack only
\* once the facade has been built and has passed its check; the bind is
\* requested only once all six groups are mounted; a request is in flight
\* only while the listener is bound.
C2_StagesInOrder ==
  /\ IsPrefix(trace, StageOrder)
  /\ (LayerNames \cap GroupNames # {} =>
        /\ Len(trace) >= 3
        /\ firestore = "handle"
        /\ firestoreUtils # Unbuilt
        /\ ~FacadeCheckFails(firestoreUtils))
  /\ (listener # "none" =>
        /\ GroupNames \subseteq LayerNames
        /\ SubSeq(StageOrder, 1, 5) = SubSeq(trace, 1, 5))
  /\ \A c \in AllClients : req[c].state # "idle" => listener = "bound"

C2_Witness ==
  /\ trace = StageOrder
  /\ \E c \in AllClients :
       /\ req[c].state = "active"
       /\ req[c].idx \in 1..Len(stack)
       /\ stack[req[c].idx].name = "users"

\* the credential initializer has run (it either moved on or ended the process)
InitRan == pc \notin {"load", "start", "envLoaded"} \/ (pc = "envLoaded" /\ proc = "exited")

\* C3: when the credential the initializer reads is unusable (a blob that
\* does not parse, a missing bundle, a credential cert() refuses), the
\* diagnostic is logged, the process has exited with code 1, and no facade,
\* no layer and no listener exists.
C3_InitFailureIsFatal ==
  (InitRan /\ CredentialInput # "valid") =>
    /\ LogEntry("Error initializing Firebase Admin:", {CredentialInput}) \in log
    /\ proc = "exited" /\ exitCode = 1
    /\ pc = "envLoaded"
    /\ firestore = "undefined"
    /\ firestoreUtils = Unbuilt
    /\ stack = <<>>
    /\ listener = "none"

C3_Witness ==
  /\ InitRan /\ proc = "exited"
  /\ mode = "production" /\ blob = "malformed"

\* C4: when the facade fails the structural check, its exposed surface is
\* logged, the process has exited with code 1, nothing is mounted and the
\* listener was never asked to bind.
C4_FacadeFailureIsFatal ==
  (firestoreUtils # Unbuilt /\ (firestoreUtils = NullFacade \/ "queryDocuments" \notin firestoreUtils)) =>
    /\ LogEntry("firestoreUtils was not initialized correctly!",
                SurfaceKeys(firestoreUtils)) \in log
    /\ proc = "exited" /\ exitCode = 1
    /\ stack = <<>>
    /\ listener = "none"
    /\ "listen" \notin {trace[i] : i \in 1..Len(trace)}

C4_Witness ==
  /\ firestoreUtils = {"createDocument"}
  /\ proc = "exited"

\* C5: once the bind has failed the process has ended with a non-zero exit
\* code and has not logged that the server is running.
C5_BindFailureIsFatal ==
  listener = "failed" =>
    /\ proc = "exited" /\ exitCode >= 1
    /\ ~Logged("Server running on port")

\* the terminal error handler was handed an error for this request
Handled(c) == Done(c) /\ req[c].seen.set

C7_StackOnlyOutsideProduction ==
  \A c \in AllClients :
    Done(c) =>
      /\ mode = "production" => ~req[c].resp.stack
      /\ (mode # "production" /\ req[c].resp.by = "errorHandler") => req[c].resp.stack

C7_Witness ==
  \E c \in AllClients :
    /\ Done(c) /\ req[c].resp.by = "errorHandler"
    /\ mode = "production"
    /\ ~req[c].resp.stack

\* C8: every response with a failure status comes from the terminal error
\* handler and is a JSON body with an error field and the request's
\* identifier.
C8_EveryFailureIsAnEnvelope ==
  \A c \in AllClients :
    (Done(c) /\ req[c].resp.status >= 400) =>
      /\ req[c].resp.by = "errorHandler"
      /\ req[c].resp.kind = "json"
      /\ req[c].resp.error # ""
      /\ req[c].resp.requestId = req[c].id

\* C9: the initializer reads the blob exactly when the mode is production
\* and the blob is set, and the local bundle in every other case; when the
\* bundle is read and is absent, the failure is logged, the process exits
\* with code 1 and the listener was never asked to bind.
C9_CredentialSourceByMode ==
  InitRan =>
    /\ serviceAccount.source = "blob" <=> (mode = "production" /\ blob # "absent")
    /\ serviceAccount.source = "file" <=> ~(mode = "production" /\ blob # "absent")
    /\ (serviceAccount.source = "file" /\ bundle = "absent") =>
         /\ Logged("Error initializing Firebase Admin:")
         /\ proc = "exited" /\ exitCode = 1
         /\ listener = "none"

C9_Witness ==
  /\ InitRan
  /\ mode = "development" /\ blob = "valid"
  /\ serviceAccount.source = "file" /\ bundle = "absent"
  /\ proc = "exited"

HealthRequest(c) == req[c].method = "GET" /\ req[c].path = <<"api", "health">>

\* C10: every GET /api/health is answered with 200, and of two successive
\* health responses the later timestamp is strictly greater.  (The status
\* is stated for the requests no earlier stage refuses: the claim covers
\* the others too.)
C10_HealthStrictlyIncreasing ==
  /\ \A c \in AllClients :
       (Done(c) /\ HealthRequest(c) /\ ~req[c].err.set) => req[c].resp.status = 200
  /\ healthTs[1] # NoTime => healthTs[1] < healthTs[2]

\* C10, amended: a GET /api/health that the security layer, the logging
\* stage and the body parsers pass without an error is answered by the
\* health handler with 200 and the clock's reading at that moment; of two
\* successive health responses the later timestamp is greater than or equal
\* to the earlier (equal within one millisecond), the clock not being set
\* back.
C10_HealthNonDecreasing ==
  [][ \A c \in AllClients :
        (req[c].state = "active" /\ req'[c].state = "done" /\ HealthRequest(c)) =>
          IF req[c].err.set
            THEN req'[c].resp.by # "health"
            ELSE /\ req'[c].resp.by = "health"
                 /\ req'[c].resp.status = 200
                 /\ req'[c].resp.ts = now
                 /\ healthTs' = <<healthTs[2], now>>
                 /\ healthTs[2] <= healthTs'[2] ]_vars

C10_Witness ==
  /\ healthTs[1] # NoTime
  /\ healthTs[1] = healthTs[2]
  /\ \E c \in AllClients : Done(c) /\ req[c].resp.by = "health" /\ req[c].resp.status = 200

\* the layers a request can pass, in the order index.js registers them; the
\* default handler of express comes after the last of them
PipelineOrder ==
  <<"security", "logging", "json", "urlencoded", "corsResponder", "corsTest",
    "auth", "users", "sleep", "competitions", "notifications", "invitations",
    "health", "errorHandler", "finalhandler">>

Rank(name) == CHOOSE i \in 1..Len(PipelineOrder) : PipelineOrder[i] = name

\* the layers the request of client c went through
Ran(c) == {req[c].ran[i] : i \in 1..Len(req[c].ran)}

\* C11: once the terminal handler has turned an error into an envelope, the
\* process is still running with its listener bound and the whole stack
\* registered, and every request in flight or answered afterwards entered
\* the pipeline at its first layer and is not stuck: a request in flight
\* always has its next step enabled.
C11_ErrorsDoNotStopServing ==
  enveloped =>
    /\ Running /\ exitCode = -1
    /\ listener = "bound"
    /\ Len(stack) = Len(PipelineOrder) - 1
    /\ \A i \in 1..Len(stack) : stack[i].name = PipelineOrder[i]
    /\ \A c \in AllClients :
         /\ req[c].state = "active" =>
              /\ IF req[c].ran = <<>> THEN req[c].idx = 1
                                      ELSE req[c].ran[1] = "security"
              /\ ENABLED Pipeline(c)
         /\ req[c].state = "done" => req[c].ran[1] = "security"
         /\ (req[c].state = "idle" /\ c \in clients) => ENABLED Accept(c)

\* a request is answered by the health endpoint after an earlier request
\* ended in an envelope
C11_Witness ==
  /\ enveloped
  /\ \E c \in AllClients :
       /\ Done(c) /\ req[c].resp.by = "health"
       /\ ~req[c].err.set

\* C12: once the facade has been built, a non-null facade that lacks one of
\* the expected operations has ended the process with code 1, and no route
\* group is mounted.
C12_IncompleteFacadeIsFatal ==
  (/\ firestoreUtils # Unbuilt
   /\ firestoreUtils # NullFacade
   /\ ~(ExpectedOps \subseteq firestoreUtils)) =>
    /\ proc = "exited" /\ exitCode = 1
    /\ LayerNames \cap GroupNames = {}

C14_StagesInFixedOrder ==
  \A c \in AllClients :
    LET ran == req[c].ran
    IN /\ \A i, j \in 1..Len(ran) : i < j => Rank(ran[i]) < Rank(ran[j])
       /\ ran # <<>> => ran[1] = "security"
       /\ "errorHandler" \in Ran(c) =>
            /\ req[c].seen.set
            /\ \E i \in 1..Len(ran) :
                 /\ ran[i] = "errorHandler" /\ i > 1
                 /\ ran[i - 1] \in {"security", "json", "urlencoded"} \cup GroupNames
       /\ (req[c].state # "idle" /\ ~req[c].err.set) => "errorHandler" \notin Ran(c)

\* a request went through all of the six stages: a route group raised and
\* the terminal handler answered
C14_Witness ==
  \E c \in AllClients :
    /\ Done(c) /\ req[c].resp.by = "errorHandler"
    /\ req[c].ran = <<"security", "logging", "json", "urlencoded", "corsResponder",
                      "users", "errorHandler">>

C16_OneHandleOneFacade ==
  /\ [](/\ effects.handles = (IF firestore = "handle" THEN 1 ELSE 0)
        /\ effects.facades = (IF firestoreUtils = Unbuilt THEN 0 ELSE 1)
        /\ (firestoreUtils # Unbuilt => firestore = "handle")
        /\ (LayerNames \cap GroupNames # {} =>
              /\ GroupNames \subseteq LayerNames
              /\ Len(effects.injected) = Len(RouteGroups))
        /\ \A i \in 1..Len(effects.injected) :
             /\ effects.injected[i].instance = 1
             /\ effects.injected[i].surface = firestoreUtils
             /\ firestoreUtils # NullFacade
             /\ "queryDocuments" \in firestoreUtils)
  /\ [][/\ (firestore = "handle" => firestore' = firestore)
        /\ (firestoreUtils # Unbuilt => firestoreUtils' = firestoreUtils)
        /\ (effects.injected # <<>> => effects'.injected = effects.injected)]_vars

\* the server answers a request with all six groups holding the one facade
C16_Witness ==
  /\ Len(effects.injected) = 6
  /\ effects.handles = 1 /\ effects.facades = 1
  /\ \E c \in AllClients : Done(c) /\ req[c].resp.by \in GroupNames

\* C18, as the specification states it: in production the local
\* configuration file is never read.
C18_FileOnlyOutsideProduction ==
  mode = "production" => effects.dotenv = 0

\* C18, as the code has it: the local configuration file is read in every
\* mode, production included, once when the module is loaded and once more
\* by loadEnv, before the credential initializer runs.
C18_FileReadInEveryMode ==
  /\ pc = "load" => effects.dotenv = 0
  /\ pc = "start" => effects.dotenv = 1
  /\ pc \notin {"load", "start"} => effects.dotenv = 2

\* a production process has read the file twice and is serving
C18_Witness ==
  /\ mode = "production"
  /\ effects.dotenv = 2
  /\ listener = "bound"

\* C19: a response to a request that reached the reflective responder
\* carries the five reflective headers, whether the responder itself, the
\* cors-test or health endpoint, a route group, the terminal handler or the
\* default handler of express ended the request; a response without
\* them answers an error that the security layer or a body parser raised,
\* before the responder and every endpoint.
C19_ResponsesKeepCorsHeaders ==
  \A c \in AllClients :
    Done(c) =>
      /\ req[c].resp.by \in {"corsResponder", "corsTest", "health"} \cup GroupNames =>
           "corsResponder" \in Ran(c)
      /\ "corsResponder" \in Ran(c) =>
           /\ req[c].acao \in {"*", req[c].origin}
           /\ req[c].acao = "*" <=> req[c].origin = NoOrigin
           /\ req[c].cors = CorsHeaders
      /\ "corsResponder" \notin Ran(c) =>
           /\ req[c].acao = "" /\ req[c].cors = {}
           /\ req[c].seen.set
           /\ req[c].resp.by \in {"errorHandler", "finalhandler"}
           /\ \E i \in 1..Len(req[c].ran) :
                /\ req[c].ran[i] \in {"security", "json", "urlencoded"}
                /\ req[c].ran[i + 1] = "errorHandler"

\* the terminal handler answers an error thrown by a route group, and the
\* response has the headers
C19_Witness ==
  \E c \in AllClients :
    /\ Done(c) /\ req[c].resp.by = "errorHandler"
    /\ Ran(c) \cap GroupNames # {}
    /\ req[c].acao = req[c].origin
    /\ req[c].cors # {}

\* C17: with two clients talking to the server at once, under every
\* interleaving of their requests: the reflected origin a request carries
\* comes from its own Origin header, the origin field of a cors-test or
\* health body echoes its own header, and an envelope has the request's own
\* identifier and the message and status of the error raised for that
\* request; and a step taken for one request changes nothing of the other.
C17_RequestsDoNotInterfere ==
  /\ [](\A c \in AllClients :
          /\ req[c].acao \in {"", IF req[c].origin = NoOrigin THEN "*"
                                                            ELSE req[c].origin}
          /\ req[c].state # "idle" => req[c].id = (IF c = "c1" THEN "req-1" ELSE "req-2")
          /\ Done(c) =>
               /\ req[c].resp.by \in {"corsTest", "health"} =>
                    req[c].resp.origin = (IF req[c].origin = NoOrigin
                                            THEN "No origin header" ELSE req[c].origin)
               /\ req[c].resp.by = "errorHandler" =>
                    /\ req[c].resp.requestId = req[c].id
                    /\ req[c].seen = req[c].err /\ req[c].err.set
                    /\ req[c].resp.error = (IF req[c].err.message = ""
                                              THEN "Internal server error"
                                              ELSE req[c].err.message)
                    /\ req[c].resp.status = (IF req[c].err.statusCode \in {NoCode, 0}
                                               THEN 500 ELSE req[c].err.statusCode))
  /\ [][\A c, d \in AllClients :
          (c # d /\ req'[c] # req[c]) => req'[d] = req[d]]_vars

\* two requests with different Origin headers are in flight together, one
\* past the reflective responder and the other about to enter it
C17_Witness ==
  \E c, d \in AllClients :
    /\ c # d
    /\ req[c].state = "active" /\ req[d].state = "active"
    /\ req[c].origin # req[d].origin
    /\ "corsResponder" \in Ran(c) /\ req[c].acao = req[c].origin
    /\ req[d].idx \in 1..Len(stack) /\ stack[req[d].idx].name = "corsResponder"


====
